---- MODULE Spec2Model ----
(***************************************************************************)
(* Model of the OpenAI-compatible chat-completion proxy.                   *)
(*                                                                         *)
(*   Spec    one HTTP request through the API-key middleware, the          *)
(*           /v1/chat/completions handler (validation, token, upstream     *)
(*           call, stream relay, error classification) and /v1/models.     *)
(*   SpecTr  the conversation translator openaiMessageToAntigravity, one   *)
(*           loop iteration per step, over bounded message lists.          *)
(*                                                                         *)
(* Text is a sequence of tokens (single characters where the code looks    *)
(* inside the text), so includes / startsWith / slice / concatenation are  *)
(* computed, not assumed.                                                  *)
(***************************************************************************)
EXTENDS Naturals, Sequences, FiniteSets, TLC

VARIABLES
  apiKey,        \* config.security.apiKey
  req,           \* the incoming request: method, path, headers, body
  pc,            \* where the request is: mw, awaitToken, awaitStream, ...
  res,           \* the express response object
  tokenCalls,    \* number of tokenManager.getToken() calls
  upstreamCalls, \* number of calls of the upstream invoker
  delivered,     \* upstream events handed to the relay callback so far
  hasToolCall,   \* the streaming branch's local flag
  meta,          \* createResponseMeta() result of this request
  caught,        \* the error the catch block received, with res.headersSent then
  outcome,       \* how the request ended
  client,        \* the client connection: closed or not, and what was written by then
  noStreamResult,  \* what generateAssistantResponseNoStream resolved with
  conc,          \* two chat-completion streams in flight at once (SpecConc)
  build,         \* the request envelope under construction (SpecReq)
  openaiMessages,       \* translator input
  ti,                   \* translator loop position (next message to convert)
  antigravityMessages   \* translator accumulator

hVars == <<apiKey, req, pc, res, tokenCalls, upstreamCalls, delivered,
           hasToolCall, meta, caught, outcome, client, noStreamResult>>
tVars == <<openaiMessages, ti, antigravityMessages>>
cVars == <<conc>>
bVars == <<build>>
vars == <<apiKey, req, pc, res, tokenCalls, upstreamCalls, delivered,
          hasToolCall, meta, caught, outcome, client, noStreamResult,
          openaiMessages, ti, antigravityMessages, conc, build>>

----------------------------------------------------------------------------
(* Bounds *)

MaxEvents == 3
MaxMsgs == 3

----------------------------------------------------------------------------
(* JavaScript values and string primitives *)

Undefined == <<"undefined">>
Null == "null"
EmptyObject == [k \in {} |-> k]

Truthy(s) == s # Undefined /\ s # <<>>

StartsWith(s, p) == Len(s) >= Len(p) /\ SubSeq(s, 1, Len(p)) = p
Slice(s, n) == SubSeq(s, n + 1, Len(s))
Includes(s, t) ==
  \E i \in 0..Len(s) : i + Len(t) <= Len(s) /\ SubSeq(s, i + 1, i + Len(t)) = t
EndsWith(s, t) == Len(s) >= Len(t) /\ SubSeq(s, Len(s) - Len(t) + 1, Len(s)) = t

----------------------------------------------------------------------------
(* The express response object (node http.ServerResponse) *)

NoBody == [nobody |-> TRUE]
NoCatch == [nocatch |-> TRUE]
NoResult == [noresult |-> TRUE]
NoBuild == [nobuild |-> TRUE]
\* the client connection before it is closed
Connected == [closed |-> FALSE, writtenThen |-> 0]

NewResponse ==
  [statusCode |-> 200, contentType |-> "none", headersSent |-> FALSE,
   body |-> NoBody, written |-> <<>>, ended |-> FALSE]

\* res.status(s).json(b): sends the headers, the body, and ends the response
resStatusJson(r, status, body) ==
  [r EXCEPT !.statusCode = status, !.contentType = "application/json",
            !.headersSent = TRUE, !.body = body, !.ended = TRUE]

\* res.write(x): the first write flushes the headers
resWrite(r, x) ==
  [r EXCEPT !.headersSent = TRUE, !.written = Append(@, x)]

resEnd(r) == [r EXCEPT !.headersSent = TRUE, !.ended = TRUE]

\* mutant: the stream headers are flushed at once (res.flushHeaders())
setStreamHeadersFlushed(r) ==
  [r EXCEPT !.contentType = "text/event-stream", !.headersSent = TRUE]

\* res.setHeader only records the header; nothing is sent
setStreamHeaders(r) == [r EXCEPT !.contentType = "text/event-stream"]

createStreamChunk(id, created, model, delta, finish_reason) ==
  [id |-> id, object |-> "chat.completion.chunk", created |-> created,
   model |-> model,
   choices |-> <<[index |-> 0, delta |-> delta, finish_reason |-> finish_reason]>>]

\* one SSE event: "data: " + JSON + "\n\n"
SseEvent(payload) == [prefix |-> "data: ", data |-> payload, suffix |-> "\n\n"]
DoneMarker == [literal |-> "[DONE]"]

writeStreamData(r, data) == resWrite(r, SseEvent(data))

endStream(r, id, created, model, finish_reason) ==
  resEnd(resWrite(
    writeStreamData(r, createStreamChunk(id, created, model, EmptyObject, finish_reason)),
    SseEvent(DoneMarker)))

----------------------------------------------------------------------------
(* Inputs of one request *)

Bearer == <<"B", "e", "a", "r", "e", "r", " ">>
Key1 == <<"k", "1">>
Key2 == <<"k", "2">>

\* Authorization header values a client may send
AuthHeaders ==
  { Undefined, Bearer \o Key1, Key1, Bearer \o Key2, Key2,
    <<"b", "e", "a", "r", "e", "r", " ">> \o Key1, Bearer \o Key1 \o <<"x">>,
    Bearer \o Bearer \o Key2 }

\* no key configured, a plain key, a key that itself begins with "Bearer "
ApiKeys == { Undefined, Key1, Bearer \o Key2 }

ChatPath == <<"/v1/", "chat/completions">>
ModelsPath == <<"/v1/", "models">>
OtherPath == <<"/favicon.ico">>

\* model names are spelled out, one character per element
TextModel == <<"g", "e", "m", "i", "n", "i", "-", "2", ".", "5", "-", "p", "r", "o">>
ImageModel ==
  <<"g", "e", "m", "i", "n", "i", "-", "3", "-",
    "p", "r", "o", "-", "i", "m", "a", "g", "e">>
SomeMessages == <<[role |-> "user", content |-> <<"hi">>]>>

\* request bodies: messages, model and stream may each be absent
ChatBodies ==
  [messages : {SomeMessages}, model : {TextModel, ImageModel}, stream : BOOLEAN]
    \cup [messages : {SomeMessages}, model : {TextModel, ImageModel}]
    \cup [messages : {SomeMessages}, stream : BOOLEAN]
    \cup [model : {TextModel}, stream : BOOLEAN]
    \cup [model : {ImageModel}]

Requests ==
  [method : {"POST"}, path : {ChatPath}, authorization : AuthHeaders, body : ChatBodies]
    \cup [method : {"GET"}, path : {ModelsPath, OtherPath},
          authorization : AuthHeaders, body : {EmptyObject}]

BodyModel(b) == IF "model" \in DOMAIN b THEN b.model ELSE Undefined
\* const { stream = false } = req.body
BodyStream(b) == IF "stream" \in DOMAIN b THEN b.stream ELSE FALSE
\* mutant: only an empty messages array is refused
MessagesMissingEmptyOnly(b) == "messages" \in DOMAIN b /\ Len(b.messages) = 0

\* !messages, for a body whose messages field is absent or an array
MessagesMissing(b) == "messages" \notin DOMAIN b

\* upstream events of generateAssistantResponse
Tc1 == [id |-> "call_1", type |-> "function",
        function |-> [name |-> "f", arguments |-> "{}"]]
Events ==
  { [type |-> "thinking", content |-> <<"a">>],
    [type |-> "text", content |-> <<"b">>],
    [type |-> "usage", content |-> <<"c">>],
    [type |-> "tool_calls", tool_calls |-> <<Tc1>>] }

\* results of generateAssistantResponseNoStream
NoStreamResults ==
  [content : {<<"hi">>, <<>>}, toolCalls : {<<>>, <<Tc1>>}, reasoning_content : {<<>>, <<"r">>}]

Times == {1999, 2000}

Marker429 == <<"4", "2", "9">>
MarkerCapacity == <<"c", "a", "p", "a", "c", "i", "t", "y">>
MarkerResourceExhausted ==
  <<"R", "E", "S", "O", "U", "R", "C", "E", "_",
    "E", "X", "H", "A", "U", "S", "T", "E", "D">>

ErrorMessages ==
  { <<>>,
    <<"b", "o", "o", "m">>,
    <<"H", "T", "T", "P", " ">> \o Marker429 \o <<"!">>,
    <<"n", "o", " ">> \o MarkerCapacity,
    MarkerResourceExhausted,
    <<"C", "a", "p", "a", "c", "i", "t", "y", " ", "4", "2">> }

\* error.status: 0 stands for a failure that carries no status
Errors == [message : ErrorMessages, status : {0, 429, 503}]

\* new Error('...token...') of the handler (the text is abbreviated to one token)
NoTokenError == [message |-> <<"no token available, run npm run login">>, status |-> 0]
\* undefined.includes: the TypeError of a body without model
ModelTypeError ==
  [message |-> <<"Cannot read properties of undefined (reading 'includes')">>,
   status |-> 0]

----------------------------------------------------------------------------
(* API-key middleware *)

\* mutant: a header without the 'Bearer ' prefix provides no key
providedKeyStrict(authHeader) ==
  IF authHeader # Undefined /\ StartsWith(authHeader, Bearer)
  THEN Slice(authHeader, 7) ELSE Undefined

providedKey(authHeader) ==
  IF authHeader # Undefined /\ StartsWith(authHeader, Bearer)
  THEN Slice(authHeader, 7) ELSE authHeader

ApiKeyRejects(rq, key) ==
  /\ StartsWith(rq.path, <<"/v1/">>)
  /\ Truthy(key)
  /\ providedKey(rq.authorization) # key

Route(rq) ==
  IF rq.method = "POST" /\ rq.path = ChatPath THEN "chat"
  ELSE IF rq.method = "GET" /\ rq.path = ModelsPath THEN "models"
  ELSE "none"

----------------------------------------------------------------------------
(* Error classifier: the catch block of the chat handler *)

\* mutant: the failure's own status wins over the message markers
ErrorStatusOwnFirst(error) ==
  IF error.status # 0 THEN error.status
  ELSE IF \/ Includes(error.message, Marker429)
          \/ Includes(error.message, MarkerCapacity)
          \/ Includes(error.message, MarkerResourceExhausted)
  THEN 429 ELSE 500

ErrorStatus(error) ==
  IF \/ Includes(error.message, Marker429)
     \/ Includes(error.message, MarkerCapacity)
     \/ Includes(error.message, MarkerResourceExhausted)
  THEN 429
  ELSE IF error.status # 0 THEN error.status ELSE 500

ErrorResponse(error) ==
  [error |->
    [message |-> IF error.message # <<>> THEN error.message
                 ELSE <<"Internal Server Error">>,
     type |-> "server_error",
     param |-> Null,
     code |-> IF ErrorStatus(error) = 429 THEN "rate_limit_exceeded"
              ELSE "internal_error"]]

SystemErrorText(error) == <<"\n\n[System Error: ">> \o error.message \o <<"]">>

\* mutant: the catch block answers with JSON whatever was sent before
catchBlockUnguarded(r, error, stream, m, model) ==
  resStatusJson(r, ErrorStatus(error), ErrorResponse(error))

\* the whole catch block; m is the response meta the in-band branch names
catchBlock(r, error, stream, m, model) ==
  IF ~r.headersSent
  THEN IF stream
       THEN IF ~r.headersSent
            THEN resStatusJson(r, ErrorStatus(error), ErrorResponse(error))
            ELSE endStream(
                   writeStreamData(r, createStreamChunk(m.id, m.created, model,
                                        [content |-> SystemErrorText(error)], Null)),
                   m.id, m.created, model, "stop")
       ELSE resStatusJson(r, ErrorStatus(error), ErrorResponse(error))
  ELSE r

createResponseMeta(now) == [id |-> <<"chatcmpl-", now>>, created |-> now \div 1000]
NoMeta == [id |-> <<>>, created |-> 0]

----------------------------------------------------------------------------
(* Stream relay *)

\* mutant: reasoning text is sent in the content field
StreamDeltaMerged(data) ==
  IF data.type = "tool_calls" THEN [tool_calls |-> data.tool_calls]
  ELSE [content |-> data.content]

\* the callback's delta for one upstream event
StreamDelta(data) ==
  IF data.type = "tool_calls" THEN [tool_calls |-> data.tool_calls]
  ELSE IF data.type = "thinking" THEN [reasoning_content |-> data.content]
  ELSE [content |-> data.content]

\* mutant: the tool-call flag is ignored
FinishReasonStop(flag) == "stop"

FinishReason(flag) == IF flag THEN "tool_calls" ELSE "stop"

\* mutant: tool_calls and reasoning_content are always attached
NoStreamMessageAllFields(result) ==
  [role |-> "assistant", content |-> result.content,
   tool_calls |-> result.toolCalls, reasoning_content |-> result.reasoning_content]

\* the non-streaming message object
NoStreamMessage(result) ==
  LET m0 == [role |-> "assistant", content |-> result.content]
      m1 == IF Len(result.toolCalls) > 0
            THEN [k \in DOMAIN m0 \cup {"tool_calls"} |->
                    IF k = "tool_calls" THEN result.toolCalls ELSE m0[k]]
            ELSE m0
  IN IF Truthy(result.reasoning_content)
     THEN [k \in DOMAIN m1 \cup {"reasoning_content"} |->
             IF k = "reasoning_content" THEN result.reasoning_content ELSE m1[k]]
     ELSE m1

NoStreamBody(m, model, result) ==
  [id |-> m.id, object |-> "chat.completion", created |-> m.created, model |-> model,
   choices |-> <<[index |-> 0, message |-> NoStreamMessage(result),
                  finish_reason |-> IF Len(result.toolCalls) > 0
                                    THEN "tool_calls" ELSE "stop"]>>]

----------------------------------------------------------------------------
(* One request: middleware, route handlers, upstream callbacks *)

Init ==
  /\ apiKey \in ApiKeys
  /\ req \in Requests
  /\ pc = "mw"
  /\ res = NewResponse
  /\ tokenCalls = 0
  /\ upstreamCalls = 0
  /\ delivered = <<>>
  /\ hasToolCall = FALSE
  /\ meta = NoMeta
  /\ caught = NoCatch
  /\ outcome = "none"
  /\ client = Connected
  /\ noStreamResult = NoResult
  /\ openaiMessages = <<>>
  /\ ti = 1
  /\ antigravityMessages = <<>>
  /\ conc = <<>>
  /\ build = NoBuild

\* the throw lands in the catch block, which runs to its end
Throw(error) ==
  /\ caught' = [error |-> error, headersSent |-> res.headersSent]
  /\ res' = catchBlock(res, error, BodyStream(req.body), meta, BodyModel(req.body))
  /\ pc' = "done"
  /\ outcome' = "caught"

\* API-key middleware answers 401 and does not call next()
MwReject ==
  /\ pc = "mw"
  /\ ApiKeyRejects(req, apiKey)
  /\ res' = resStatusJson(res, 401, [error |-> <<"Invalid API Key">>])
  /\ pc' = "done"
  /\ outcome' = "unauthorized"
  /\ UNCHANGED <<apiKey, req, tokenCalls, upstreamCalls, delivered, hasToolCall,
                 meta, caught>>
  /\ UNCHANGED <<client, noStreamResult>>
  /\ UNCHANGED <<tVars, cVars, bVars>>

\* next() with no route of this file matching
NoRoute ==
  /\ pc = "mw"
  /\ ~ApiKeyRejects(req, apiKey)
  /\ Route(req) = "none"
  /\ pc' = "done"
  /\ outcome' = "noroute"
  /\ UNCHANGED <<apiKey, req, res, tokenCalls, upstreamCalls, delivered, hasToolCall,
                 meta, caught>>
  /\ UNCHANGED <<client, noStreamResult>>
  /\ UNCHANGED <<tVars, cVars, bVars>>

\* chat handler, !messages
ChatMissingMessages ==
  /\ pc = "mw"
  /\ ~ApiKeyRejects(req, apiKey)
  /\ Route(req) = "chat"
  /\ MessagesMissing(req.body)
  /\ res' = resStatusJson(res, 400, [error |-> <<"messages is required">>])
  /\ pc' = "done"
  /\ outcome' = "badrequest"
  /\ UNCHANGED <<apiKey, req, tokenCalls, upstreamCalls, delivered, hasToolCall,
                 meta, caught>>
  /\ UNCHANGED <<client, noStreamResult>>
  /\ UNCHANGED <<tVars, cVars, bVars>>

\* chat handler up to await tokenManager.getToken()
ChatGetToken ==
  /\ pc = "mw"
  /\ ~ApiKeyRejects(req, apiKey)
  /\ Route(req) = "chat"
  /\ ~MessagesMissing(req.body)
  /\ tokenCalls' = tokenCalls + 1
  /\ pc' = "awaitToken"
  /\ UNCHANGED <<apiKey, req, res, upstreamCalls, delivered, hasToolCall,
                 meta, caught, outcome>>
  /\ UNCHANGED <<client, noStreamResult>>
  /\ UNCHANGED <<tVars, cVars, bVars>>

\* getToken() resolved with no token: throw new Error(...)
TokenNone ==
  /\ pc = "awaitToken"
  /\ Throw(NoTokenError)
  /\ UNCHANGED <<apiKey, req, tokenCalls, upstreamCalls, delivered, hasToolCall, meta>>
  /\ UNCHANGED <<client, noStreamResult>>
  /\ UNCHANGED <<tVars, cVars, bVars>>

\* getToken() rejected
TokenRejects ==
  /\ pc = "awaitToken"
  /\ \E error \in Errors : Throw(error)
  /\ UNCHANGED <<apiKey, req, tokenCalls, upstreamCalls, delivered, hasToolCall, meta>>
  /\ UNCHANGED <<client, noStreamResult>>
  /\ UNCHANGED <<tVars, cVars, bVars>>

\* token present, body without model: model.includes throws
ModelUndefined ==
  /\ pc = "awaitToken"
  /\ BodyModel(req.body) = Undefined
  /\ Throw(ModelTypeError)
  /\ UNCHANGED <<apiKey, req, tokenCalls, upstreamCalls, delivered, hasToolCall, meta>>
  /\ UNCHANGED <<client, noStreamResult>>
  /\ UNCHANGED <<tVars, cVars, bVars>>

isImageModel(model) == Includes(model, <<"-", "i", "m", "a", "g", "e">>)

\* token present, stream, text model: up to await generateAssistantResponse(...)
StartStream ==
  /\ pc = "awaitToken"
  /\ BodyModel(req.body) # Undefined
  /\ BodyStream(req.body)
  /\ ~isImageModel(BodyModel(req.body))
  /\ \E now \in Times : meta' = createResponseMeta(now)
  /\ res' = setStreamHeaders(res)
  /\ hasToolCall' = FALSE
  /\ upstreamCalls' = upstreamCalls + 1
  /\ pc' = "awaitStream"
  /\ UNCHANGED <<apiKey, req, tokenCalls, delivered, caught, outcome>>
  /\ UNCHANGED <<client, noStreamResult>>
  /\ UNCHANGED <<tVars, cVars, bVars>>

\* token present, image model or no stream: up to
\* await generateAssistantResponseNoStream(...)
StartNoStream ==
  /\ pc = "awaitToken"
  /\ BodyModel(req.body) # Undefined
  /\ ~BodyStream(req.body) \/ isImageModel(BodyModel(req.body))
  /\ \E now \in Times : meta' = createResponseMeta(now)
  /\ res' = IF BodyStream(req.body) THEN setStreamHeaders(res) ELSE res
  /\ upstreamCalls' = upstreamCalls + 1
  /\ pc' = "awaitNoStream"
  /\ UNCHANGED <<apiKey, req, tokenCalls, delivered, hasToolCall, caught, outcome>>
  /\ UNCHANGED <<client, noStreamResult>>
  /\ UNCHANGED <<tVars, cVars, bVars>>

\* mutant: the response meta is generated again for every chunk
relayCallbackFreshMeta(r, m, model, data) ==
  LET fresh == createResponseMeta(3000 + 1000 * Len(r.written))
  IN writeStreamData(r, createStreamChunk(fresh.id, fresh.created, model,
                                          StreamDelta(data), Null))

\* the relay callback, called with one upstream event
relayCallback(r, m, model, data) ==
  writeStreamData(r, createStreamChunk(m.id, m.created, model, StreamDelta(data), Null))

StreamEvent ==
  /\ pc = "awaitStream"
  /\ Len(delivered) < MaxEvents
  /\ \E data \in Events :
       /\ delivered' = Append(delivered, data)
       /\ hasToolCall' = IF data.type = "tool_calls" THEN TRUE ELSE hasToolCall
       /\ res' = relayCallback(res, meta, BodyModel(req.body), data)
  /\ UNCHANGED <<apiKey, req, pc, tokenCalls, upstreamCalls, meta, caught, outcome>>
  /\ UNCHANGED <<client, noStreamResult>>
  /\ UNCHANGED <<tVars, cVars, bVars>>

\* generateAssistantResponse resolved: endStream
StreamResolve ==
  /\ pc = "awaitStream"
  /\ res' = endStream(res, meta.id, meta.created, BodyModel(req.body),
                      FinishReason(hasToolCall))
  /\ pc' = "done"
  /\ outcome' = "streamed"
  /\ UNCHANGED <<apiKey, req, tokenCalls, upstreamCalls, delivered, hasToolCall,
                 meta, caught>>
  /\ UNCHANGED <<client, noStreamResult>>
  /\ UNCHANGED <<tVars, cVars, bVars>>

\* generateAssistantResponse rejected, before or after events
StreamReject ==
  /\ pc = "awaitStream"
  /\ \E error \in Errors : Throw(error)
  /\ UNCHANGED <<apiKey, req, tokenCalls, upstreamCalls, delivered, hasToolCall, meta>>
  /\ UNCHANGED <<client, noStreamResult>>
  /\ UNCHANGED <<tVars, cVars, bVars>>

\* generateAssistantResponseNoStream resolved
NoStreamResolve ==
  /\ pc = "awaitNoStream"
  /\ \E result \in NoStreamResults :
       /\ noStreamResult' = result
       /\ res' = IF BodyStream(req.body)
                 THEN endStream(
                     writeStreamData(res, createStreamChunk(meta.id, meta.created,
                        BodyModel(req.body), [content |-> result.content], Null)),
                     meta.id, meta.created, BodyModel(req.body), "stop")
                 ELSE resStatusJson(res, res.statusCode,
                                 NoStreamBody(meta, BodyModel(req.body), result))
  /\ pc' = "done"
  /\ outcome' = IF BodyStream(req.body) THEN "streamed" ELSE "json"
  /\ UNCHANGED <<apiKey, req, tokenCalls, upstreamCalls, delivered, hasToolCall,
                 meta, caught>>
  /\ UNCHANGED client
  /\ UNCHANGED <<tVars, cVars, bVars>>

NoStreamReject ==
  /\ pc = "awaitNoStream"
  /\ \E error \in Errors : Throw(error)
  /\ UNCHANGED <<apiKey, req, tokenCalls, upstreamCalls, delivered, hasToolCall, meta>>
  /\ UNCHANGED <<client, noStreamResult>>
  /\ UNCHANGED <<tVars, cVars, bVars>>

\* GET /v1/models up to await getAvailableModels()
ModelsCall ==
  /\ pc = "mw"
  /\ ~ApiKeyRejects(req, apiKey)
  /\ Route(req) = "models"
  /\ upstreamCalls' = upstreamCalls + 1
  /\ pc' = "awaitModels"
  /\ UNCHANGED <<apiKey, req, res, tokenCalls, delivered, hasToolCall,
                 meta, caught, outcome>>
  /\ UNCHANGED <<client, noStreamResult>>
  /\ UNCHANGED <<tVars, cVars, bVars>>

ModelsResolve ==
  /\ pc = "awaitModels"
  /\ res' = resStatusJson(res, res.statusCode, [object |-> "list"])
  /\ pc' = "done"
  /\ outcome' = "models"
  /\ UNCHANGED <<apiKey, req, tokenCalls, upstreamCalls, delivered, hasToolCall,
                 meta, caught>>
  /\ UNCHANGED <<client, noStreamResult>>
  /\ UNCHANGED <<tVars, cVars, bVars>>

ModelsReject ==
  /\ pc = "awaitModels"
  /\ \E error \in Errors :
       res' = resStatusJson(res, 500, [error |-> error.message])
  /\ pc' = "done"
  /\ outcome' = "modelserror"
  /\ UNCHANGED <<apiKey, req, tokenCalls, upstreamCalls, delivered, hasToolCall,
                 meta, caught>>
  /\ UNCHANGED <<client, noStreamResult>>
  /\ UNCHANGED <<tVars, cVars, bVars>>

\* the client closes the connection while the upstream exchange is pending; the handler
\* registers no 'close' listener, so nothing of its state changes and the
\* upstream call goes on
ClientDisconnect ==
  /\ pc \in {"awaitStream", "awaitNoStream"}
  /\ ~client.closed
  /\ client' = [closed |-> TRUE, writtenThen |-> Len(res.written)]
  /\ UNCHANGED <<apiKey, req, pc, res, tokenCalls, upstreamCalls, delivered,
                 hasToolCall, meta, caught, outcome, noStreamResult>>
  /\ UNCHANGED <<tVars, cVars, bVars>>

Next ==
  \/ MwReject
  \/ NoRoute
  \/ ChatMissingMessages
  \/ ChatGetToken
  \/ TokenNone
  \/ TokenRejects
  \/ ModelUndefined
  \/ StartStream
  \/ StartNoStream
  \/ StreamEvent
  \/ StreamResolve
  \/ StreamReject
  \/ NoStreamResolve
  \/ NoStreamReject
  \/ ModelsCall
  \/ ModelsResolve
  \/ ModelsReject
  \/ ClientDisconnect

Spec == Init /\ [][Next]_vars

----------------------------------------------------------------------------
(* Conversation translator (utils.js) *)

\* message.content is a string, an array of typed items, or null
StringContent(t) == [string |-> t]
ArrayContent(items) == [array |-> items]
NullContent == [null |-> TRUE]

\* /^data:image\/(\w+);base64,(.+)$/ over a URL cut into its four tokens
WordTokens == {"png", "jpeg"}
MatchDataUri(url) ==
  /\ Len(url) = 4
  /\ url[1] = "data:image/"
  /\ url[2] \in WordTokens
  /\ url[3] = ";base64,"
  /\ url[4] # ""

ItemUrl(item) ==
  IF "image_url" \in DOMAIN item /\ "url" \in DOMAIN item.image_url
  THEN item.image_url.url ELSE <<>>

RECURSIVE ExtractItems(_, _)
ExtractItems(items, result) ==
  IF items = <<>> THEN result
  ELSE LET item == Head(items)
           next ==
             IF item.type = "text"
             THEN [result EXCEPT !.text = @ \o item.text]
             ELSE IF item.type = "image_url" /\ MatchDataUri(ItemUrl(item))
             THEN [result EXCEPT !.images =
                     Append(@, [inlineData |->
                                  [mimeType |-> <<"image/", ItemUrl(item)[2]>>,
                                   data |-> ItemUrl(item)[4]]])]
             ELSE result
       IN ExtractItems(Tail(items), next)

extractImagesFromContent(content) ==
  IF "string" \in DOMAIN content THEN [text |-> content.string, images |-> <<>>]
  ELSE IF "array" \in DOMAIN content
  THEN ExtractItems(content.array, [text |-> <<>>, images |-> <<>>])
  ELSE [text |-> <<>>, images |-> <<>>]

handleUserMessage(extracted, acc) ==
  Append(acc, [role |-> "user",
               parts |-> <<[text |-> extracted.text]>> \o extracted.images])

\* message.content || ''
ContentOrEmpty(message) ==
  IF "content" \in DOMAIN message /\ "string" \in DOMAIN message.content
  THEN message.content.string ELSE <<>>

HasToolCalls(message) ==
  "tool_calls" \in DOMAIN message /\ Len(message.tool_calls) > 0

ToolNote(tc) ==
  <<"[System Note: Model requested tool '", tc.function.name,
    "' with args: ", tc.function.arguments, "]">>

\* mutant: the notes are joined last call first
RECURSIVE JoinNotesReversed(_)
JoinNotesReversed(tcs) ==
  IF tcs = <<>> THEN <<>>
  ELSE IF Len(tcs) = 1 THEN ToolNote(tcs[1])
  ELSE JoinNotesReversed(Tail(tcs)) \o <<"\n">> \o ToolNote(tcs[1])

RECURSIVE JoinNotes(_)
JoinNotes(tcs) ==
  IF tcs = <<>> THEN <<>>
  ELSE IF Len(tcs) = 1 THEN ToolNote(tcs[1])
  ELSE ToolNote(tcs[1]) \o <<"\n">> \o JoinNotes(Tail(tcs))

Whitespace == {" ", "\n", "\t"}
\* mutant: no text counts as blank
IsBlankNever(text) == FALSE

\* content.trim() === ''
IsBlank(text) == \A i \in 1..Len(text) : text[i] \in Whitespace

AssistantText(message) ==
  LET content == ContentOrEmpty(message)
  IN IF HasToolCalls(message)
     THEN (IF content # <<>> THEN content \o <<"\n">> ELSE content)
            \o JoinNotes(message.tool_calls)
     ELSE content

handleAssistantMessage(message, acc) ==
  LET content == AssistantText(message)
      parts == IF content # <<>> /\ ~IsBlank(content)
               THEN <<[text |-> content]>>
               ELSE <<[text |-> <<"...">>]>>
  IN Append(acc, [role |-> "model", parts |-> parts])

\* the name the first part of a turn matching the id carries, "" when none matches
TurnCallName(turn, id) ==
  LET hits == {j \in 1..Len(turn.parts) :
                 /\ "functionCall" \in DOMAIN turn.parts[j]
                 /\ turn.parts[j].functionCall.id = id}
  IN IF turn.role = "model" /\ hits # {}
     THEN turn.parts[CHOOSE j \in hits : \A k \in hits : j <= k].functionCall.name
     ELSE ""

\* the backward scan over the translated turns: the latest turn that yields a name
ScanFunctionName(acc, id) ==
  LET found == {i \in 1..Len(acc) : TurnCallName(acc[i], id) # ""}
  IN IF found = {} THEN ""
     ELSE TurnCallName(acc[CHOOSE i \in found : \A k \in found : k <= i], id)

MessageName(message) == IF "name" \in DOMAIN message THEN message.name ELSE ""

ResolveFunctionName(message, acc) ==
  IF MessageName(message) # "" THEN MessageName(message)
  ELSE ScanFunctionName(acc, message.tool_call_id)

\* handleToolCall: defined in utils.js, called from nowhere
handleToolCall(message, acc) ==
  LET functionResponse ==
        [functionResponse |->
           [id |-> message.tool_call_id,
            name |-> ScanFunctionName(acc, message.tool_call_id),
            response |-> [output |-> message.content]]]
  IN IF /\ acc # <<>>
        /\ acc[Len(acc)].role = "user"
        /\ \E j \in 1..Len(acc[Len(acc)].parts) :
              "functionResponse" \in DOMAIN acc[Len(acc)].parts[j]
     THEN [acc EXCEPT ![Len(acc)].parts = Append(@, functionResponse)]
     ELSE Append(acc, [role |-> "user", parts |-> <<functionResponse>>])

\* mutant: the tool branch merges into a preceding tool-result turn, as
\* handleToolCall does
handleToolMessageMerging(message, acc) ==
  LET functionName == ResolveFunctionName(message, acc)
      part == [functionResponse |->
                 [name |-> IF functionName # "" THEN functionName ELSE "unknown_tool",
                  response |-> [content |-> message.content]]]
  IN IF /\ acc # <<>>
        /\ acc[Len(acc)].role = "user"
        /\ \E j \in 1..Len(acc[Len(acc)].parts) :
              "functionResponse" \in DOMAIN acc[Len(acc)].parts[j]
     THEN [acc EXCEPT ![Len(acc)].parts = Append(@, part)]
     ELSE Append(acc, [role |-> "user", parts |-> <<part>>])

\* the tool branch of openaiMessageToAntigravity
handleToolMessage(message, acc) ==
  LET functionName == ResolveFunctionName(message, acc)
  IN Append(acc,
       [role |-> "user",
        parts |-> <<[functionResponse |->
                       [name |-> IF functionName # "" THEN functionName
                                 ELSE "unknown_tool",
                        response |-> [content |-> message.content]]]>>])

\* mutant: every role but assistant and tool is converted as a user message
translateMessageElseUser(message, acc) ==
  IF message.role = "assistant" THEN handleAssistantMessage(message, acc)
  ELSE IF message.role = "tool" THEN handleToolMessage(message, acc)
  ELSE handleUserMessage(extractImagesFromContent(message.content), acc)

\* one iteration of the loop of openaiMessageToAntigravity
translateMessage(message, acc) ==
  IF message.role = "user"
  THEN handleUserMessage(extractImagesFromContent(message.content), acc)
  ELSE IF message.role = "assistant" THEN handleAssistantMessage(message, acc)
  ELSE IF message.role = "tool" THEN handleToolMessage(message, acc)
  ELSE acc

----------------------------------------------------------------------------
(* Translator inputs and the translation loop *)

TcF == [id |-> "c1", type |-> "function",
        function |-> [name |-> "f", arguments |-> "{\"x\":1}"]]
TcG == [id |-> "c1", type |-> "function",
        function |-> [name |-> "g", arguments |-> "{}"]]
TcK == [id |-> "c2", type |-> "function",
        function |-> [name |-> "k", arguments |-> "{}"]]

PngUrl == <<"data:image/", "png", ";base64,", "QUJD">>
SvgUrl == <<"data:image/", "svg+xml", ";base64,", "QUJD">>

MessagePool ==
  { [role |-> "user", content |-> StringContent(<<"u1">>)],
    [role |-> "user",
     content |-> ArrayContent(<<[type |-> "text", text |-> <<"u2">>],
                                [type |-> "image_url", image_url |-> [url |-> PngUrl]],
                                [type |-> "image_url", image_url |-> [url |-> SvgUrl]],
                                [type |-> "text", text |-> <<"u3">>]>>)],
    [role |-> "system", content |-> StringContent(<<"sys">>)],
    [role |-> "developer", content |-> StringContent(<<"dev">>)],
    [role |-> "assistant", content |-> StringContent(<<"a1">>)],
    [role |-> "assistant", content |-> NullContent, tool_calls |-> <<TcF>>],
    [role |-> "assistant", content |-> StringContent(<<"a3">>),
     tool_calls |-> <<TcG, TcK>>],
    [role |-> "assistant", content |-> StringContent(<<>>)],
    [role |-> "assistant", content |-> StringContent(<<" ", "\n">>)],
    [role |-> "assistant"],
    [role |-> "tool", tool_call_id |-> "c1", content |-> StringContent(<<"r1">>)],
    [role |-> "tool", tool_call_id |-> "c2", name |-> "h",
     content |-> StringContent(<<"r2">>)],
    [role |-> "tool", tool_call_id |-> "c9", content |-> StringContent(<<"r3">>)] }

MessageLists == UNION { [1..n -> MessagePool] : n \in 0..MaxMsgs }

InitTr ==
  /\ openaiMessages \in MessageLists
  /\ ti = 1
  /\ antigravityMessages = <<>>
  /\ apiKey = Undefined
  /\ req = [method |-> "POST", path |-> ChatPath, authorization |-> Undefined,
            body |-> EmptyObject]
  /\ pc = "translate"
  /\ res = NewResponse
  /\ tokenCalls = 0
  /\ upstreamCalls = 0
  /\ delivered = <<>>
  /\ hasToolCall = FALSE
  /\ meta = NoMeta
  /\ caught = NoCatch
  /\ outcome = "none"
  /\ client = Connected
  /\ noStreamResult = NoResult
  /\ conc = <<>>
  /\ build = NoBuild

TrUser ==
  /\ pc = "translate"
  /\ ti <= Len(openaiMessages)
  /\ openaiMessages[ti].role = "user"
  /\ antigravityMessages' = translateMessage(openaiMessages[ti], antigravityMessages)
  /\ ti' = ti + 1
  /\ UNCHANGED openaiMessages
  /\ UNCHANGED <<hVars, cVars, bVars>>

TrAssistant ==
  /\ pc = "translate"
  /\ ti <= Len(openaiMessages)
  /\ openaiMessages[ti].role = "assistant"
  /\ antigravityMessages' = translateMessage(openaiMessages[ti], antigravityMessages)
  /\ ti' = ti + 1
  /\ UNCHANGED openaiMessages
  /\ UNCHANGED <<hVars, cVars, bVars>>

TrTool ==
  /\ pc = "translate"
  /\ ti <= Len(openaiMessages)
  /\ openaiMessages[ti].role = "tool"
  /\ antigravityMessages' = translateMessage(openaiMessages[ti], antigravityMessages)
  /\ ti' = ti + 1
  /\ UNCHANGED openaiMessages
  /\ UNCHANGED <<hVars, cVars, bVars>>

\* a role no branch handles (system, developer, ...): nothing is pushed
TrSkip ==
  /\ pc = "translate"
  /\ ti <= Len(openaiMessages)
  /\ openaiMessages[ti].role \notin {"user", "assistant", "tool"}
  /\ antigravityMessages' = translateMessage(openaiMessages[ti], antigravityMessages)
  /\ ti' = ti + 1
  /\ UNCHANGED openaiMessages
  /\ UNCHANGED <<hVars, cVars, bVars>>

NextTr == TrUser \/ TrAssistant \/ TrTool \/ TrSkip

SpecTr == InitTr /\ [][NextTr]_vars

----------------------------------------------------------------------------
(* Properties of the streaming relay *)

\* the request is a streaming chat completion for a non-image model
IsRelayRequest ==
  /\ req.method = "POST" /\ req.path = ChatPath
  /\ "messages" \in DOMAIN req.body
  /\ "stream" \in DOMAIN req.body /\ req.body.stream
  /\ "model" \in DOMAIN req.body /\ ~Includes(req.body.model, <<"-", "i", "m", "a", "g", "e">>)

ChunkDelta(item) == item.data.choices[1].delta
IsChunk(item) == "choices" \in DOMAIN item.data
IsDone(item) == item.data = [literal |-> "[DONE]"]

\* C1: in the streaming path for a non-image model the handler writes exactly one
\* chunk per delivered upstream event, in delivery order; a thinking event gives a
\* delta with only reasoning_content, a tool_calls event a delta with only
\* tool_calls, any other event a delta with only content.
C1_OneChunkPerEventInOrder ==
  IsRelayRequest =>
    /\ Len(res.written) >= Len(delivered)
    /\ pc = "awaitStream" => Len(res.written) = Len(delivered)
    /\ outcome = "streamed" => Len(res.written) = Len(delivered) + 2
    /\ \A i \in 1..Len(delivered) :
         /\ IsChunk(res.written[i])
         /\ res.written[i].data.choices[1].finish_reason = "null"
         /\ LET e == delivered[i]
                d == ChunkDelta(res.written[i])
            IN /\ e.type = "thinking" => d = [reasoning_content |-> e.content]
               /\ e.type = "tool_calls" => d = [tool_calls |-> e.tool_calls]
               /\ e.type \notin {"thinking", "tool_calls"} => d = [content |-> e.content]

C1_Witness ==
  /\ IsRelayRequest
  /\ pc = "awaitStream"
  /\ Len(delivered) = 3
  /\ delivered[1].type = "thinking"
  /\ delivered[2].type = "text"
  /\ delivered[3].type = "tool_calls"
  /\ Len(res.written) = 3

\* C2: once the upstream event sequence of a non-image stream ends normally, the
\* handler has written, after the event chunks, exactly one terminal chunk with an
\* empty delta, then the [DONE] marker, and closed the response; the terminal
\* finish_reason is tool_calls iff a tool_calls event was delivered, else stop.
C2_TerminalChunkThenDone ==
  (IsRelayRequest /\ outcome = "streamed") =>
    LET n == Len(res.written)
        sawToolCall == \E i \in 1..Len(delivered) : delivered[i].type = "tool_calls"
    IN /\ n = Len(delivered) + 2
       /\ IsChunk(res.written[n - 1])
       /\ ChunkDelta(res.written[n - 1]) = [k \in {} |-> k]
       /\ res.written[n - 1].data.choices[1].finish_reason =
            (IF sawToolCall THEN "tool_calls" ELSE "stop")
       /\ IsDone(res.written[n])
       /\ Cardinality({i \in 1..n : IsChunk(res.written[i])
                          /\ DOMAIN ChunkDelta(res.written[i]) = {}}) = 1
       /\ Cardinality({i \in 1..n : IsDone(res.written[i])}) = 1
       /\ res.ended
       /\ pc = "done"

C2_Witness ==
  /\ IsRelayRequest
  /\ outcome = "streamed"
  /\ Len(delivered) = 3
  /\ delivered[1].type = "thinking"
  /\ delivered[2].type = "text"
  /\ delivered[3].type = "tool_calls"
  /\ res.written[4].data.choices[1].finish_reason = "tool_calls"

\* C3: if the upstream invoker fails after a streaming response has begun (at least
\* one chunk written), the handler appends a content delta carrying the error, then
\* the terminal chunk with finish_reason stop, then [DONE], and closes the response,
\* leaving the status code unchanged.
C3_InBandErrorThenNormalEnd ==
  (outcome = "caught" /\ Len(delivered) >= 1) =>
    LET n == Len(res.written)
    IN /\ n = Len(delivered) + 3
       /\ IsChunk(res.written[n - 2])
       /\ DOMAIN ChunkDelta(res.written[n - 2]) = {"content"}
       /\ Includes(ChunkDelta(res.written[n - 2]).content, caught.error.message)
       /\ IsChunk(res.written[n - 1])
       /\ ChunkDelta(res.written[n - 1]) = [k \in {} |-> k]
       /\ res.written[n - 1].data.choices[1].finish_reason = "stop"
       /\ IsDone(res.written[n])
       /\ res.ended
       /\ res.statusCode = 200

----------------------------------------------------------------------------
(* Properties of the error classifier, validation and the API-key check *)

HasMarker(message) ==
  \E m \in {Marker429, MarkerCapacity, MarkerResourceExhausted} :
    \E i \in 1..Len(message) :
      /\ i + Len(m) - 1 <= Len(message)
      /\ \A j \in 1..Len(m) : message[i + j - 1] = m[j]

ExpectedStatus(error) ==
  CASE HasMarker(error.message) -> 429
    [] ~HasMarker(error.message) /\ error.status # 0 -> error.status
    [] OTHER -> 500

\* C4: for a failure raised before headers are sent the status is 429 when the
\* message contains '429', 'capacity' or 'RESOURCE_EXHAUSTED' (even if the failure
\* carries another status), else the failure's own status when it has one, else
\* 500; the code is rate_limit_exceeded exactly when the status is 429, and
\* internal_error otherwise.
C4_StatusClassification ==
  (outcome = "caught" /\ ~caught.headersSent) =>
    /\ res.statusCode = ExpectedStatus(caught.error)
    /\ "error" \in DOMAIN res.body
    /\ res.statusCode = 429 => res.body.error.code = "rate_limit_exceeded"
    /\ res.statusCode # 429 => res.body.error.code = "internal_error"

C4_Witness ==
  /\ outcome = "caught"
  /\ ~caught.headersSent
  /\ caught.error.status = 503
  /\ caught.error.message = MarkerResourceExhausted
  /\ res.statusCode = 429
  /\ res.body.error.code = "rate_limit_exceeded"

\* C5: a failure before any header has been sent (no token, a rejected token or
\* upstream call, a stream failing before its first event) is answered with exactly
\* one JSON error body {error:{message, type:'server_error', param:null, code}}
\* with the classified status, streaming or not, and no SSE chunk is written; with
\* no token the upstream invoker is never called.
C5_JsonErrorBeforeHeaders ==
  (outcome = "caught" /\ delivered = <<>>) =>
    /\ ~caught.headersSent
    /\ res.ended
    /\ res.contentType = "application/json"
    /\ res.written = <<>>
    /\ res.statusCode = ExpectedStatus(caught.error)
    /\ DOMAIN res.body = {"error"}
    /\ DOMAIN res.body.error = {"message", "type", "param", "code"}
    /\ res.body.error.type = "server_error"
    /\ res.body.error.param = "null"
    /\ res.body.error.code \in {"rate_limit_exceeded", "internal_error"}
    /\ caught.error.message # <<>> => res.body.error.message = caught.error.message
    /\ caught.error.message = <<>> =>
         res.body.error.message = <<"Internal Server Error">>
    /\ caught.error = NoTokenError => upstreamCalls = 0

C5_Witness ==
  /\ outcome = "caught"
  /\ IsRelayRequest
  /\ upstreamCalls = 1
  /\ delivered = <<>>
  /\ res.statusCode = 503
  /\ "error" \in DOMAIN res.body
  /\ res.written = <<>>

\* C6: a chat-completion request that reaches the handler with no messages field is
\* answered 400 {error:'messages is required'}; neither the credential provider
\* nor the upstream invoker is called for it and nothing else is written.
C6_MissingMessagesIs400 ==
  (/\ req.method = "POST" /\ req.path = ChatPath
   /\ "messages" \notin DOMAIN req.body
   /\ outcome # "unauthorized"
   /\ pc # "mw") =>
    /\ pc = "done"
    /\ outcome = "badrequest"
    /\ res.statusCode = 400
    /\ res.body = [error |-> <<"messages is required">>]
    /\ res.ended
    /\ res.written = <<>>
    /\ tokenCalls = 0
    /\ upstreamCalls = 0
    /\ caught = [nocatch |-> TRUE]

C6_Witness ==
  /\ req.path = ChatPath
  /\ "messages" \notin DOMAIN req.body
  /\ "stream" \in DOMAIN req.body /\ req.body.stream
  /\ pc = "done"
  /\ res.statusCode = 400

IsV1Path == req.path[1] = "/v1/"
KeyConfigured == apiKey # <<"undefined">> /\ apiKey # <<>>
Unauthorized ==
  /\ pc = "done"
  /\ outcome = "unauthorized"
  /\ res.statusCode = 401
  /\ res.body = [error |-> <<"Invalid API Key">>]
  /\ res.ended
  /\ tokenCalls = 0
  /\ upstreamCalls = 0
PassedOn == outcome # "unauthorized" /\ res.statusCode # 401

\* C7 as stated: with an API key configured, every /v1/* request whose
\* Authorization header is not exactly 'Bearer <key>' (missing, wrong, or the key
\* without the prefix) is answered 401 and reaches no route handler; a request
\* carrying 'Bearer <key>' is passed on.
C7_OnlyBearerKeyPasses ==
  (KeyConfigured /\ IsV1Path /\ pc # "mw") =>
    /\ req.authorization # Bearer \o apiKey => Unauthorized
    /\ req.authorization = Bearer \o apiKey => PassedOn

\* C7 amended: the request is passed on when the header is 'Bearer <key>', and also
\* when it is the bare key and the key does not itself begin with 'Bearer '; every
\* other header (missing, wrong key, other prefix) is answered 401 and reaches no
\* route handler.
C7_BearerOrBareKeyPasses ==
  (KeyConfigured /\ IsV1Path /\ pc # "mw") =>
    LET accepted ==
          \/ req.authorization = Bearer \o apiKey
          \/ /\ req.authorization = apiKey
             /\ ~(Len(apiKey) >= 7 /\ SubSeq(apiKey, 1, 7) = Bearer)
    IN /\ ~accepted => Unauthorized
       /\ accepted => PassedOn

C7_Witness ==
  /\ KeyConfigured
  /\ req.path = ChatPath
  /\ req.authorization = apiKey
  /\ pc = "awaitToken"
  /\ tokenCalls = 1

----------------------------------------------------------------------------
(* Properties of the conversation translator *)

IsTurnRole(role) == role \in {"user", "assistant", "tool"}
\* the turn the p-th input message lands in
TurnIndex(p) == Cardinality({q \in 1..p : IsTurnRole(openaiMessages[q].role)})
FunctionResponseParts(turn) ==
  {j \in 1..Len(turn.parts) : "functionResponse" \in DOMAIN turn.parts[j]}

\* C8: the translated conversation has exactly one turn per user, assistant or
\* tool message, in input order (user -> user, assistant -> model, tool -> user),
\* each turn carrying its own message's content; system messages (and other
\* roles) contribute no turn, so a user/system-only list gives one user turn per
\* user message and no model turn.
C8_OneTurnPerMessageInOrder ==
  pc = "translate" =>
    /\ Len(antigravityMessages) = TurnIndex(ti - 1)
    /\ \A p \in 1..(ti - 1) :
         LET m == openaiMessages[p]
             t == antigravityMessages[TurnIndex(p)]
         IN IsTurnRole(m.role) =>
              /\ m.role = "user" =>
                   /\ t.role = "user"
                   /\ "text" \in DOMAIN t.parts[1]
                   /\ "string" \in DOMAIN m.content =>
                        t.parts = <<[text |-> m.content.string]>>
              /\ m.role = "assistant" =>
                   /\ t.role = "model"
                   /\ ("content" \in DOMAIN m /\ "string" \in DOMAIN m.content
                         /\ \E k \in 1..Len(m.content.string) :
                               m.content.string[k] \notin {" ", "\n", "\t"}) =>
                        Includes(t.parts[1].text, m.content.string)
              /\ m.role = "tool" =>
                   /\ t.role = "user"
                   /\ t.parts[1].functionResponse.response.content = m.content
    /\ (\A p \in 1..(ti - 1) : openaiMessages[p].role \in {"user", "system"}) =>
         \A i \in 1..Len(antigravityMessages) : antigravityMessages[i].role = "user"

C8_Witness ==
  /\ pc = "translate"
  /\ ti = 4
  /\ openaiMessages[1].role = "system"
  /\ openaiMessages[2].role = "user"
  /\ openaiMessages[3].role = "assistant"
  /\ Len(antigravityMessages) = 2
  /\ antigravityMessages[1].role = "user"
  /\ antigravityMessages[2].role = "model"

\* the earlier assistant messages that made a tool call with this id
CallersOf(p) ==
  {q \in 1..(p - 1) :
     /\ openaiMessages[q].role = "assistant"
     /\ "tool_calls" \in DOMAIN openaiMessages[q]
     /\ \E k \in 1..Len(openaiMessages[q].tool_calls) :
          openaiMessages[q].tool_calls[k].id = openaiMessages[p].tool_call_id}

CallName(q, id) ==
  LET tcs == openaiMessages[q].tool_calls
      hits == {k \in 1..Len(tcs) : tcs[k].id = id}
  IN tcs[CHOOSE k \in hits : \A l \in hits : k <= l].function.name

\* C9: for a tool message without a name whose tool_call_id is the id of a tool
\* call of an earlier assistant message, the functionResponse name is that call's
\* function name (the most recent matching call); 'unknown_tool' is used only
\* when no matching call exists.
C9_ToolNameResolvedFromHistory ==
  pc = "translate" =>
    \A p \in 1..(ti - 1) :
      LET m == openaiMessages[p]
      IN (m.role = "tool" /\ "name" \notin DOMAIN m) =>
           LET name ==
                 antigravityMessages[TurnIndex(p)].parts[1].functionResponse.name
               callers == CallersOf(p)
           IN IF callers = {} THEN name = "unknown_tool"
              ELSE name = CallName(CHOOSE q \in callers : \A r \in callers : r <= q,
                                   m.tool_call_id)

\* C10: a tool message always becomes a new user turn holding exactly one
\* functionResponse part and is never merged into a previous turn: k consecutive
\* tool messages give k separate user turns, and no translated turn holds more
\* than one functionResponse part.
C10_ToolTurnNeverMerged ==
  pc = "translate" =>
    /\ \A p \in 1..(ti - 1) :
         openaiMessages[p].role = "tool" =>
           /\ TurnIndex(p) <= Len(antigravityMessages)
           /\ (p > 1 /\ IsTurnRole(openaiMessages[p - 1].role)) =>
                TurnIndex(p) = TurnIndex(p - 1) + 1
           /\ LET t == antigravityMessages[TurnIndex(p)]
              IN /\ t.role = "user"
                 /\ Len(t.parts) = 1
                 /\ FunctionResponseParts(t) = {1}
    /\ \A i \in 1..Len(antigravityMessages) :
         Cardinality(FunctionResponseParts(antigravityMessages[i])) <= 1
    /\ Cardinality({i \in 1..Len(antigravityMessages) :
                      FunctionResponseParts(antigravityMessages[i]) # {}})
         = Cardinality({p \in 1..(ti - 1) : openaiMessages[p].role = "tool"})

C10_Witness ==
  /\ pc = "translate"
  /\ ti = 4
  /\ \A p \in 1..3 : openaiMessages[p].role = "tool"
  /\ Len(antigravityMessages) = 3
  /\ \A i \in 1..3 : Len(antigravityMessages[i].parts) = 1

----------------------------------------------------------------------------
(* Client disconnect *)

\* C11: if the client disconnects while a streaming exchange is in progress,
\* cancellation reaches the upstream invoker and no further chunk is written to
\* that response after the disconnect.
C11_NoChunkAfterDisconnect ==
  (IsRelayRequest /\ client.closed) => Len(res.written) = client.writtenThen

----------------------------------------------------------------------------
(* The whole translation, as generateRequestBody calls it *)

RECURSIVE TranslateFrom(_, _)
TranslateFrom(messages, acc) ==
  IF messages = <<>> THEN acc
  ELSE TranslateFrom(Tail(messages), translateMessage(Head(messages), acc))

\* const antigravityMessages = [] : a fresh accumulator for every call
openaiMessageToAntigravity(messages) == TranslateFrom(messages, <<>>)

----------------------------------------------------------------------------
(* Two streaming chat completions in flight at once *)

MaxConcEvents == 2

ConcIds == {1, 2}
ConcEvents == {e \in Events : e.type \in {"thinking", "text", "tool_calls"}}
ConcError == [message |-> <<"b", "o", "o", "m">>, status |-> 0]

ConcMessagesA ==
  <<[role |-> "user", content |-> StringContent(<<"u1">>)],
    [role |-> "assistant", content |-> NullContent, tool_calls |-> <<TcF>>],
    [role |-> "tool", tool_call_id |-> "c1", content |-> StringContent(<<"r1">>)]>>
ConcMessagesB ==
  <<[role |-> "system", content |-> StringContent(<<"sys">>)],
    [role |-> "user", content |-> StringContent(<<"u2">>)]>>

\* one request of its own: body, arrival time, and everything the handler
\* invocation keeps in its own scope
ConcRequests ==
  [messages : {ConcMessagesA, ConcMessagesB}, model : {TextModel}, now : Times,
   pc : {"start"}, res : {NewResponse}, delivered : {<<>>}, hasToolCall : {FALSE},
   meta : {NoMeta}, contents : {<<>>}, outcome : {"none"}]

\* the handler variables while another specification runs
HandlerParked ==
  /\ apiKey = Undefined
  /\ req = [method |-> "POST", path |-> ChatPath, authorization |-> Undefined,
            body |-> EmptyObject]
  /\ pc = "parked"
  /\ res = NewResponse
  /\ tokenCalls = 0
  /\ upstreamCalls = 0
  /\ delivered = <<>>
  /\ hasToolCall = FALSE
  /\ meta = NoMeta
  /\ caught = NoCatch
  /\ outcome = "none"
  /\ client = Connected
  /\ noStreamResult = NoResult

TranslatorParked ==
  /\ openaiMessages = <<>>
  /\ ti = 1
  /\ antigravityMessages = <<>>

InitConc ==
  /\ conc \in [ConcIds -> ConcRequests]
  /\ build = NoBuild
  /\ HandlerParked
  /\ TranslatorParked

\* mutant: the tool-call flag is one variable of the module, shared by all requests
SharedFlag(c, i) == \E j \in DOMAIN c : c[j].hasToolCall

\* let hasToolCall = false : declared inside the handler, one per invocation
ClosureFlag(c, i) == c[i].hasToolCall

\* request i: from the token to await generateAssistantResponse(...)
ConcStart(i) ==
  /\ conc[i].pc = "start"
  /\ conc' = [conc EXCEPT
       ![i].contents = openaiMessageToAntigravity(conc[i].messages),
       ![i].meta = createResponseMeta(conc[i].now),
       ![i].res = setStreamHeaders(@),
       ![i].hasToolCall = FALSE,
       ![i].pc = "awaitStream"]

\* request i: its relay callback is called with one event
ConcEvent(i) ==
  /\ conc[i].pc = "awaitStream"
  /\ Len(conc[i].delivered) < MaxConcEvents
  /\ \E data \in ConcEvents :
       conc' = [conc EXCEPT
         ![i].delivered = Append(@, data),
         ![i].hasToolCall = IF data.type = "tool_calls" THEN TRUE ELSE @,
         ![i].res = relayCallback(@, conc[i].meta, conc[i].model, data)]

\* request i: generateAssistantResponse resolved
ConcResolve(i) ==
  /\ conc[i].pc = "awaitStream"
  /\ conc' = [conc EXCEPT
       ![i].res = endStream(@, conc[i].meta.id, conc[i].meta.created, conc[i].model,
                            FinishReason(ClosureFlag(conc, i))),
       ![i].pc = "done",
       ![i].outcome = "streamed"]

\* request i: generateAssistantResponse rejected
ConcReject(i) ==
  /\ conc[i].pc = "awaitStream"
  /\ conc' = [conc EXCEPT
       ![i].res = catchBlock(@, ConcError, TRUE, conc[i].meta, conc[i].model),
       ![i].pc = "done",
       ![i].outcome = "caught"]

ConcStartAny ==
  /\ \E i \in ConcIds : ConcStart(i)
  /\ UNCHANGED <<hVars, tVars, bVars>>
ConcEventAny ==
  /\ \E i \in ConcIds : ConcEvent(i)
  /\ UNCHANGED <<hVars, tVars, bVars>>
ConcResolveAny ==
  /\ \E i \in ConcIds : ConcResolve(i)
  /\ UNCHANGED <<hVars, tVars, bVars>>
ConcRejectAny ==
  /\ \E i \in ConcIds : ConcReject(i)
  /\ UNCHANGED <<hVars, tVars, bVars>>

NextConc == ConcStartAny \/ ConcEventAny \/ ConcResolveAny \/ ConcRejectAny

SpecConc == InitConc /\ [][NextConc]_vars

\* C12: two chat-completion requests in flight at once are handled independently:
\* under every interleaving each response holds exactly the chunks of its own
\* events in its own order, under its own id and model, its finish reason depends
\* only on whether its own events included a tool call, and its translated turns
\* come from its own messages only.
C12_RequestsIndependent ==
  \A i \in DOMAIN conc :
    LET c == conc[i]
        n == Len(c.res.written)
        sawToolCall == \E k \in 1..Len(c.delivered) : c.delivered[k].type = "tool_calls"
    IN /\ n >= Len(c.delivered)
       /\ c.pc = "awaitStream" => n = Len(c.delivered)
       /\ \A k \in 1..Len(c.delivered) :
            /\ IsChunk(c.res.written[k])
            /\ c.res.written[k].data.id = <<"chatcmpl-", c.now>>
            /\ LET e == c.delivered[k]
                   d == ChunkDelta(c.res.written[k])
               IN /\ e.type = "thinking" => d = [reasoning_content |-> e.content]
                  /\ e.type = "tool_calls" => d = [tool_calls |-> e.tool_calls]
                  /\ e.type = "text" => d = [content |-> e.content]
       /\ c.outcome = "streamed" =>
            /\ n = Len(c.delivered) + 2
            /\ c.res.written[n - 1].data.choices[1].finish_reason =
                 (IF sawToolCall THEN "tool_calls" ELSE "stop")
       /\ c.pc # "start" =>
            /\ Len(c.contents) =
                 Cardinality({p \in 1..Len(c.messages) : IsTurnRole(c.messages[p].role)})
            /\ c.contents[1].parts[1].text =
                 (IF c.messages = ConcMessagesA THEN <<"u1">> ELSE <<"u2">>)

C12_Witness ==
  /\ conc # <<>>
  /\ conc[1].pc = "awaitStream"
  /\ conc[1].hasToolCall
  /\ conc[2].outcome = "streamed"
  /\ Len(conc[2].delivered) = 2
  /\ conc[2].res.written[3].data.choices[1].finish_reason = "stop"
  /\ conc[1].messages # conc[2].messages

----------------------------------------------------------------------------
(* Identity of the chunks, the non-streaming body, one response per request *)

\* C13: the response id and created value are generated once per request, and
\* every chunk written for one streaming response, the terminal chunk included,
\* carries that same id, the same created value and the client's model name.
C13_ChunksShareIdentity ==
  Route(req) = "chat" =>
    \A i \in 1..Len(res.written) :
      IsChunk(res.written[i]) =>
        /\ meta # NoMeta
        /\ res.written[i].data.id = meta.id
        /\ res.written[i].data.created = meta.created
        /\ res.written[i].data.model = req.body.model
        /\ res.written[i].data.id = res.written[1].data.id
        /\ res.written[i].data.created = res.written[1].data.created

C13_Witness ==
  /\ IsRelayRequest
  /\ outcome = "streamed"
  /\ Len(delivered) = 3
  /\ Len(res.written) = 5
  /\ res.written[4].data.id = <<"chatcmpl-", 1999>>
  /\ res.written[4].data.created = 1

\* C14: the non-streaming path emits one JSON chat.completion object with a single
\* choice whose message always carries content, carries tool_calls iff the upstream
\* toolCalls list is non-empty and reasoning_content iff the upstream
\* reasoning_content is non-empty; finish_reason is tool_calls iff toolCalls is
\* non-empty, else stop.
C14_NoStreamJsonShape ==
  outcome = "json" =>
    LET b == res.body
        msg == b.choices[1].message
        r == noStreamResult
    IN /\ res.written = <<>>
       /\ res.ended
       /\ res.statusCode = 200
       /\ b.object = "chat.completion"
       /\ Len(b.choices) = 1
       /\ msg.role = "assistant"
       /\ "content" \in DOMAIN msg
       /\ msg.content = r.content
       /\ ("tool_calls" \in DOMAIN msg) <=> (Len(r.toolCalls) > 0)
       /\ "tool_calls" \in DOMAIN msg => msg.tool_calls = r.toolCalls
       /\ ("reasoning_content" \in DOMAIN msg) <=> (r.reasoning_content # <<>>)
       /\ "reasoning_content" \in DOMAIN msg =>
            msg.reasoning_content = r.reasoning_content
       /\ b.choices[1].finish_reason =
            (IF Len(r.toolCalls) > 0 THEN "tool_calls" ELSE "stop")

C14_Witness ==
  /\ outcome = "json"
  /\ noStreamResult.content = <<>>
  /\ noStreamResult.toolCalls = <<>>
  /\ noStreamResult.reasoning_content = <<"r">>
  /\ DOMAIN res.body.choices[1].message = {"role", "content", "reasoning_content"}

IsTerminalChunk(item) == IsChunk(item) /\ item.data.choices[1].finish_reason # Null

C19_OneForm ==
  Route(req) = "chat" =>
    LET n == Len(res.written)
    IN /\ Cardinality({i \in 1..n : IsTerminalChunk(res.written[i])}) <= 1
       /\ Cardinality({i \in 1..n : IsDone(res.written[i])}) <= 1
       /\ res.body # NoBody => n = 0

\* C19: for a single chat-completion request nothing is written to the response
\* after it has been ended, at most one terminal chunk and at most one [DONE]
\* marker are written, and a JSON body, success or error, is never sent on a
\* response that already carries an SSE chunk: each request produces at most one
\* of JSON success body, JSON error body, SSE stream.
C19_SingleResponseForm ==
  [][(res.ended => res' = res) /\ C19_OneForm']_vars

C19_Witness ==
  /\ Route(req) = "chat"
  /\ outcome = "caught"
  /\ caught # NoCatch
  /\ Len(res.written) = 2
  /\ res.body = NoBody

----------------------------------------------------------------------------
(* Assistant turns: tool-call notes and the placeholder *)

MessageString(m) ==
  IF "content" \in DOMAIN m /\ "string" \in DOMAIN m.content
  THEN m.content.string ELSE <<>>
MessageCalls(m) == IF "tool_calls" \in DOMAIN m THEN m.tool_calls ELSE <<>>
NonBlank(text) == \E k \in 1..Len(text) : text[k] \notin {" ", "\n", "\t"}

\* C15: an assistant message with N >= 1 tool calls becomes one model turn with a
\* single text part and no functionCall part; with non-empty content the text is
\* the content, a newline, then one note per tool call in tool-call order, each
\* naming that call's function and arguments; with empty content the text is the
\* N notes only.
C15_ToolCallsBecomeNotes ==
  pc = "translate" =>
    \A p \in 1..(ti - 1) :
      LET m == openaiMessages[p]
          calls == MessageCalls(m)
          N == Len(calls)
          content == MessageString(m)
          base == IF content # <<>> THEN Len(content) + 1 ELSE 0
          t == antigravityMessages[TurnIndex(p)]
          text == t.parts[1].text
      IN (m.role = "assistant" /\ N >= 1) =>
           /\ t.role = "model"
           /\ Len(t.parts) = 1
           /\ DOMAIN t.parts[1] = {"text"}
           /\ Len(text) = base + 6 * N - 1
           /\ SubSeq(text, 1, Len(content)) = content
           /\ content # <<>> => text[base] = "\n"
           /\ \A k \in 1..N :
                LET at == base + 6 * (k - 1)
                IN /\ text[at + 1] = "[System Note: Model requested tool '"
                   /\ text[at + 2] = calls[k].function.name
                   /\ text[at + 3] = "' with args: "
                   /\ text[at + 4] = calls[k].function.arguments
                   /\ text[at + 5] = "]"
                   /\ k < N => text[at + 6] = "\n"

C15_Witness ==
  /\ pc = "translate"
  /\ ti = 3
  /\ openaiMessages[1] = [role |-> "assistant", content |-> NullContent,
                          tool_calls |-> <<TcF>>]
  /\ openaiMessages[2].role = "assistant"
  /\ MessageCalls(openaiMessages[2]) = <<TcG, TcK>>
  /\ Len(antigravityMessages[1].parts[1].text) = 5
  /\ Len(antigravityMessages[2].parts[1].text) = 13
  /\ antigravityMessages[2].parts[1].text[4] = "g"
  /\ antigravityMessages[2].parts[1].text[10] = "k"

\* C20: after translating any message list every turn has at least one part, and
\* every model turn has exactly one part, a text part whose text is not blank: an
\* assistant message without tool calls whose content is empty, missing or only
\* whitespace becomes the placeholder text '...'.
C20_NoEmptyModelTurn ==
  pc = "translate" =>
    /\ \A i \in 1..Len(antigravityMessages) :
         LET t == antigravityMessages[i]
         IN /\ Len(t.parts) >= 1
            /\ t.role = "model" =>
                 /\ Len(t.parts) = 1
                 /\ DOMAIN t.parts[1] = {"text"}
                 /\ NonBlank(t.parts[1].text)
    /\ \A p \in 1..(ti - 1) :
         LET m == openaiMessages[p]
         IN (m.role = "assistant" /\ MessageCalls(m) = <<>>
               /\ ~NonBlank(MessageString(m))) =>
              antigravityMessages[TurnIndex(p)] =
                [role |-> "model", parts |-> <<[text |-> <<"...">>]>>]

C20_Witness ==
  /\ pc = "translate"
  /\ ti = 4
  /\ openaiMessages[1] = [role |-> "assistant"]
  /\ openaiMessages[2] = [role |-> "assistant", content |-> StringContent(<<" ", "\n">>)]
  /\ openaiMessages[3] = [role |-> "assistant", content |-> StringContent(<<>>)]
  /\ \A i \in 1..3 : antigravityMessages[i].parts = <<[text |-> <<"...">>]>>

----------------------------------------------------------------------------
(* The request builder: generateRequestBody and the image-model adjustment *)

MaxReqMsgs == 3

ClaudeSonnet45Thinking ==
  <<"c", "l", "a", "u", "d", "e", "-", "s", "o", "n", "n", "e", "t",
    "-", "4", "-", "5", "-", "t", "h", "i", "n", "k", "i", "n", "g">>
ClaudeSonnet45 ==
  <<"c", "l", "a", "u", "d", "e", "-", "s",
    "o", "n", "n", "e", "t", "-", "4", "-", "5">>
ClaudeOpus45 ==
  <<"c", "l", "a", "u", "d", "e", "-",
    "o", "p", "u", "s", "-", "4", "-", "5">>
ClaudeOpus45Thinking ==
  <<"c", "l", "a", "u", "d", "e", "-", "o", "p", "u", "s", "-",
    "4", "-", "5", "-", "t", "h", "i", "n", "k", "i", "n", "g">>
GeminiFlashThinking ==
  <<"g", "e", "m", "i", "n", "i", "-", "2", ".", "5", "-", "f",
    "l", "a", "s", "h", "-", "t", "h", "i", "n", "k", "i", "n", "g">>
GeminiFlash ==
  <<"g", "e", "m", "i", "n", "i", "-", "2",
    ".", "5", "-", "f", "l", "a", "s", "h">>
Gemini3ProHigh ==
  <<"g", "e", "m", "i", "n", "i", "-", "3",
    "-", "p", "r", "o", "-", "h", "i", "g", "h">>
Rev19 == <<"r", "e", "v", "1", "9", "-", "u", "i", "c", "3", "-", "1", "p">>
GptOss ==
  <<"g", "p", "t", "-", "o", "s", "s", "-", "1",
    "2", "0", "b", "-", "m", "e", "d", "i", "u", "m">>

ModelNames ==
  { ClaudeSonnet45Thinking, ClaudeSonnet45, ClaudeOpus45, ClaudeOpus45Thinking,
    GeminiFlashThinking, GeminiFlash, Gemini3ProHigh, Rev19, GptOss,
    TextModel, ImageModel }

\* config.js is not part of the sources read here: the values stand for whatever
\* the deployment configures
Config ==
  [systemInstruction |-> <<"configured instruction">>,
   defaults |-> [top_p |-> 85, top_k |-> 50, temperature |-> 1, max_tokens |-> 8096]]

\* ...params of the request body: sampling parameters, each may be absent
Parameters ==
  { EmptyObject, [top_p |-> 0], [top_p |-> 95, temperature |-> 0],
    [top_k |-> 40, max_tokens |-> 100] }

ToolParameters ==
  [k \in {"type", "$schema"} |->
     IF k = "type" THEN "object" ELSE "http://json-schema.org/draft-07/schema#"]
Tool1 ==
  [type |-> "function",
   function |-> [name |-> "f", description |-> "d", parameters |-> ToolParameters]]
\* req.body.tools: absent, or a list
NoTools == [absent |-> TRUE]
ToolList(tools) == [list |-> tools]
ToolLists == {NoTools, ToolList(<<>>), ToolList(<<Tool1>>)}

Token == [projectId |-> "p1", sessionId |-> "s1"]

ReqMessagePool ==
  { [role |-> "user", content |-> StringContent(<<"u1">>)],
    [role |-> "system", content |-> StringContent(<<"sys">>)],
    [role |-> "system", content |-> StringContent(<<>>)],
    [role |-> "system", content |-> StringContent(<<"sys2">>)] }
ReqMessageLists == UNION { [1..n -> ReqMessagePool] : n \in 0..MaxReqMsgs }

\* a ?? b over an optional field of the parameters
Nullish(parameters, key, default) ==
  IF key \in DOMAIN parameters THEN parameters[key] ELSE default

\* mutant: topP is removed whenever thinking is enabled
generateGenerationConfigNoFamily(parameters, enableThinking, actualModelName) ==
  LET generationConfig ==
        [topP |-> Nullish(parameters, "top_p", Config.defaults.top_p),
         topK |-> Nullish(parameters, "top_k", Config.defaults.top_k),
         temperature |-> Nullish(parameters, "temperature", Config.defaults.temperature),
         candidateCount |-> 1,
         maxOutputTokens |-> Nullish(parameters, "max_tokens", Config.defaults.max_tokens),
         stopSequences |-> <<"<|user|>", "<|bot|>", "<|context_request|>",
                             "<|endoftext|>", "<|end_of_turn|>">>,
         thinkingConfig |-> [includeThoughts |-> enableThinking,
                             thinkingBudget |-> IF enableThinking THEN 1024 ELSE 0]]
  IN IF enableThinking
     THEN [k \in DOMAIN generationConfig \ {"topP"} |-> generationConfig[k]]
     ELSE generationConfig

generateGenerationConfig(parameters, enableThinking, actualModelName) ==
  LET generationConfig ==
        [topP |-> Nullish(parameters, "top_p", Config.defaults.top_p),
         topK |-> Nullish(parameters, "top_k", Config.defaults.top_k),
         temperature |-> Nullish(parameters, "temperature", Config.defaults.temperature),
         candidateCount |-> 1,
         maxOutputTokens |-> Nullish(parameters, "max_tokens", Config.defaults.max_tokens),
         stopSequences |-> <<"<|user|>", "<|bot|>", "<|context_request|>",
                             "<|endoftext|>", "<|end_of_turn|>">>,
         thinkingConfig |-> [includeThoughts |-> enableThinking,
                             thinkingBudget |-> IF enableThinking THEN 1024 ELSE 0]]
  IN IF enableThinking /\ Includes(actualModelName, <<"c", "l", "a", "u", "d", "e">>)
     THEN [k \in DOMAIN generationConfig \ {"topP"} |-> generationConfig[k]]
     ELSE generationConfig

convertOpenAIToolsToAntigravity(openaiTools) ==
  IF "list" \notin DOMAIN openaiTools \/ Len(openaiTools.list) = 0 THEN <<>>
  ELSE [i \in 1..Len(openaiTools.list) |->
          LET f == openaiTools.list[i].function
          IN [functionDeclarations |->
                <<[name |-> f.name, description |-> f.description,
                   parameters |-> [k \in DOMAIN f.parameters \ {"$schema"} |->
                                     f.parameters[k]]]>>]]

modelMapping(modelName) ==
  IF modelName = ClaudeSonnet45Thinking THEN ClaudeSonnet45
  ELSE IF modelName = ClaudeOpus45 THEN ClaudeOpus45Thinking
  ELSE IF modelName = GeminiFlashThinking THEN GeminiFlash
  ELSE modelName

isEnableThinking(modelName) ==
  \/ EndsWith(modelName, <<"-", "t", "h", "i", "n", "k", "i", "n", "g">>)
  \/ modelName = TextModel
  \/ StartsWith(modelName, <<"g", "e", "m", "i", "n", "i", "-", "3", "-", "p", "r", "o", "-">>)
  \/ modelName = Rev19
  \/ modelName = GptOss

\* openaiMessages.find(msg => msg.role === 'system'): its index, 0 when none
FindSystemMessage(openaiMsgs) ==
  LET hits == {p \in 1..Len(openaiMsgs) : openaiMsgs[p].role = "system"}
  IN IF hits = {} THEN 0 ELSE CHOOSE p \in hits : \A q \in hits : p <= q

\* mutant: an empty client instruction falls back to the configured one
finalSystemInstructionOrConfigured(openaiMsgs) ==
  LET found == FindSystemMessage(openaiMsgs)
  IN IF found # 0 /\ Truthy(ContentOrEmpty(openaiMsgs[found]))
     THEN ContentOrEmpty(openaiMsgs[found])
     ELSE Config.systemInstruction

\* clientSystemMessage ? clientSystemMessage.content : config.systemInstruction
finalSystemInstruction(openaiMsgs) ==
  LET found == FindSystemMessage(openaiMsgs)
  IN IF found # 0
     THEN (IF "string" \in DOMAIN openaiMsgs[found].content
           THEN openaiMsgs[found].content.string ELSE Undefined)
     ELSE Config.systemInstruction

generateRequestBody(openaiMsgs, modelName, parameters, openaiTools, token) ==
  LET enableThinking == isEnableThinking(modelName)
      actualModelName == modelMapping(modelName)
      instruction == finalSystemInstruction(openaiMsgs)
  IN [project |-> token.projectId,
      requestId |-> <<"requestId">>,
      request |->
        [contents |-> openaiMessageToAntigravity(openaiMsgs),
         systemInstruction |->
           [role |-> "user",
            parts |-> <<[text |-> IF Truthy(instruction) THEN instruction ELSE <<>>]>>],
         tools |-> convertOpenAIToolsToAntigravity(openaiTools),
         toolConfig |-> [functionCallingConfig |-> [mode |-> "VALIDATED"]],
         generationConfig |->
           generateGenerationConfig(parameters, enableThinking, actualModelName),
         sessionId |-> token.sessionId],
      model |-> actualModelName,
      userAgent |-> "antigravity"]

\* mutant: the tools stay in the image request
imageAdjustKeepsTools(requestBody) ==
  [k \in DOMAIN requestBody \cup {"requestType"} |->
     IF k = "requestType" THEN "image_gen"
     ELSE IF k = "request"
     THEN [j \in DOMAIN requestBody.request \ {"systemInstruction", "toolConfig"} |->
             IF j = "generationConfig" THEN [candidateCount |-> 1]
             ELSE requestBody.request[j]]
     ELSE requestBody[k]]

\* if (isImageModel) { ... } of the chat handler
imageAdjust(requestBody) ==
  [k \in DOMAIN requestBody \cup {"requestType"} |->
     IF k = "requestType" THEN "image_gen"
     ELSE IF k = "request"
     THEN [j \in DOMAIN requestBody.request
                   \ {"systemInstruction", "tools", "toolConfig"} |->
             IF j = "generationConfig" THEN [candidateCount |-> 1]
             ELSE requestBody.request[j]]
     ELSE requestBody[k]]

\* the destructured request body of one chat completion, before the build
BuildInputs ==
  [stage : {"request"}, messages : ReqMessageLists, model : ModelNames,
   parameters : Parameters, tools : ToolLists]

InitReq ==
  /\ build \in BuildInputs
  /\ conc = <<>>
  /\ HandlerParked
  /\ TranslatorParked

\* what one run of lines 114..128 leaves: the value generateRequestBody returned
\* and the requestBody handed to the upstream invoker
Built(b, generated, requestBody) ==
  [stage |-> "built", messages |-> b.messages, model |-> b.model,
   parameters |-> b.parameters, tools |-> b.tools,
   generated |-> generated, requestBody |-> requestBody]

\* a model without the image marker: the envelope is passed on as generated
BuildTextRequest ==
  /\ build # NoBuild
  /\ build.stage = "request"
  /\ ~isImageModel(build.model)
  /\ LET generated == generateRequestBody(build.messages, build.model,
                                          build.parameters, build.tools, Token)
     IN build' = Built(build, generated, generated)
  /\ UNCHANGED <<hVars, tVars, cVars>>

\* a model with the image marker: the envelope is adjusted first
BuildImageRequest ==
  /\ build # NoBuild
  /\ build.stage = "request"
  /\ isImageModel(build.model)
  /\ LET generated == generateRequestBody(build.messages, build.model,
                                          build.parameters, build.tools, Token)
     IN build' = Built(build, generated, imageAdjust(generated))
  /\ UNCHANGED <<hVars, tVars, cVars>>

NextReq == BuildTextRequest \/ BuildImageRequest

SpecReq == InitReq /\ [][NextReq]_vars

IsBuilt == build # NoBuild /\ build.stage = "built"

\* C16: in the generation config generateRequestBody builds, the reasoning toggle
\* equals the reasoning-enablement of the requested model, the reasoning budget is
\* nonzero exactly when the toggle is on, candidateCount is 1, and topP is absent
\* iff reasoning is enabled and the alias-resolved model name contains 'claude';
\* otherwise topP is present: the client's value if supplied, else the configured
\* default.
C16_GenerationConfig ==
  IsBuilt =>
    LET g == build.generated.request.generationConfig
        on == isEnableThinking(build.model)
        claude == Includes(build.generated.model, <<"c", "l", "a", "u", "d", "e">>)
    IN /\ build.generated.model = modelMapping(build.model)
       /\ g.thinkingConfig.includeThoughts = on
       /\ (g.thinkingConfig.thinkingBudget # 0) <=> on
       /\ g.candidateCount = 1
       /\ ("topP" \notin DOMAIN g) <=> (on /\ claude)
       /\ "topP" \in DOMAIN g =>
            g.topP = (IF "top_p" \in DOMAIN build.parameters
                      THEN build.parameters.top_p ELSE Config.defaults.top_p)
       /\ build.model = ClaudeOpus45 => (~g.thinkingConfig.includeThoughts
                                          /\ "topP" \in DOMAIN g)
       /\ build.model = GeminiFlashThinking => (g.thinkingConfig.includeThoughts
                                                 /\ "topP" \in DOMAIN g)
       /\ build.model = TextModel => (g.thinkingConfig.includeThoughts
                                       /\ "topP" \in DOMAIN g)
       /\ build.model = GeminiFlash => ~g.thinkingConfig.includeThoughts

C16_Witness ==
  /\ IsBuilt
  /\ build.model = ClaudeSonnet45Thinking
  /\ build.generated.model = ClaudeSonnet45
  /\ build.parameters = [top_p |-> 0]
  /\ "topP" \notin DOMAIN build.generated.request.generationConfig
  /\ build.generated.request.generationConfig.thinkingConfig.thinkingBudget = 1024

\* C17: when the requested model name contains the image marker, the envelope
\* handed to the upstream invoker has no systemInstruction, no tools and no
\* toolConfig, its generationConfig is exactly one candidate, and it carries the
\* image_gen request type; otherwise systemInstruction, tools and toolConfig are
\* all present and no request type is set.
C17_ImageEnvelope ==
  IsBuilt =>
    LET rb == build.requestBody
        marked == Includes(build.model, <<"-", "i", "m", "a", "g", "e">>)
    IN /\ marked =>
            /\ {"systemInstruction", "tools", "toolConfig"} \cap DOMAIN rb.request = {}
            /\ DOMAIN rb.request.generationConfig = {"candidateCount"}
            /\ rb.request.generationConfig.candidateCount = 1
            /\ "requestType" \in DOMAIN rb
            /\ rb.requestType = "image_gen"
       /\ ~marked =>
            /\ {"systemInstruction", "tools", "toolConfig"} \subseteq DOMAIN rb.request
            /\ "requestType" \notin DOMAIN rb

C17_Witness ==
  /\ IsBuilt
  /\ build.model = ImageModel
  /\ build.tools = ToolList(<<Tool1>>)
  /\ Len(build.messages) = 2
  /\ build.messages[1].role = "system"
  /\ DOMAIN build.requestBody.request = {"contents", "generationConfig", "sessionId"}
  /\ build.generated.request.tools # <<>>

\* C18: the system instruction generateRequestBody assembles is the content of
\* the client's first system-role message whenever the list contains one, even
\* when that content is empty, and the configured instruction only when the list
\* contains no system-role message.
C18_SystemInstruction ==
  IsBuilt =>
    LET msgs == build.messages
        sys == {p \in 1..Len(msgs) : msgs[p].role = "system"}
        si == build.generated.request.systemInstruction
    IN /\ si.role = "user"
       /\ Len(si.parts) = 1
       /\ sys # {} =>
            \E p \in sys : /\ \A q \in sys : p <= q
                           /\ si.parts[1].text = msgs[p].content.string
       /\ sys = {} => si.parts[1].text = Config.systemInstruction

C18_Witness ==
  /\ IsBuilt
  /\ Len(build.messages) = 3
  /\ build.messages[1].role = "user"
  /\ build.messages[2] = [role |-> "system", content |-> StringContent(<<>>)]
  /\ build.messages[3] = [role |-> "system", content |-> StringContent(<<"sys2">>)]
  /\ build.generated.request.systemInstruction.parts[1].text = <<>>

====
